---- MODULE Spec2Model ----
(***************************************************************************)
(* Model of pkgs/setup-tool/setup-tool.py: the screen-based provisioning   *)
(* wizard (navigation over Textual's screen stack, the SetupState record)  *)
(* and ApplyScreen.apply_configuration, the six-stage apply pipeline with  *)
(* its backups.                                                            *)
(*                                                                         *)
(* Strings.  A Python str is a text: a sequence of items, each either a    *)
(* whitespace character (" " or "\n") or a maximal run of non-whitespace   *)
(* characters (a word, written as a TLA+ string).  Chars gives a word's    *)
(* characters where a regular expression or len() of the source reads     *)
(* them.                                                                   *)
(***************************************************************************)
EXTENDS Integers, Sequences, FiniteSets, TLC

VARIABLES
    proc,          \* "running" | "exited": the process of main()
    exit_code,     \* the value main() returned, -1 while it has not
    runs,          \* how many times the tool has been started
    screen_stack,  \* Textual's screen stack, the active screen last
    state,         \* the global SetupState
    wifi_iface,    \* what the last detect_wifi_interface() returned
    apply_pc,      \* where apply_configuration stands: "none", the stage it sleeps before, "done"
    step,          \* apply_configuration's local step counter
    attempted,     \* the stages whose try block has been entered, in order
    error_log,     \* the #error_log widget: <<>> or <<stage, detail>>
    status_log,    \* the #status_log widget
    exit_disabled, \* the disabled flag of ApplyScreen's Exit button
    fs,            \* the host: files, dirs, backups, and the users it has
    now,           \* the wall clock, in half seconds
    written,       \* history: the hostnames the hostname stage has written on this host, in order
    entered,       \* what the last button handler read from its screen's input widgets
    stderr         \* what nixos-rebuild wrote to its standard error, <<>> while it has not run

vars == <<proc, exit_code, runs, screen_stack, state, wifi_iface, apply_pc, step,
          attempted, error_log, status_log, exit_disabled, fs, now, written, entered,
          stderr>>

(***************************************************************************)
(* Bounds                                                                  *)
(***************************************************************************)
MaxRuns == 2

(***************************************************************************)
(* Program constants                                                       *)
(***************************************************************************)
DEFAULT_HOSTNAME == <<"pi4-smoke-test">>
DEFAULT_TIMEZONE == <<"UTC">>
DEFAULT_RUNNER_URL == <<"https://github.com/denysvitali/nix-hil-rpi">>

SSH_DIR == "/home/pi/.ssh"
RUNNER_DIR == "/var/lib/github-runner"
NIXOS_CONFIG_DIR == "/etc/nixos"
AUTH_KEYS_FILE == "/home/pi/.ssh/authorized_keys"
RUNNER_TOKEN_FILE == "/var/lib/github-runner/.runner_token"
RUNNER_URL_FILE == "/var/lib/github-runner/.runner_url"
HOSTNAME_NIX == "/etc/nixos/hostname.nix"
TIMEZONE_NIX == "/etc/nixos/timezone.nix"
WIFI_NIX == "/etc/nixos/wifi.nix"

Dirs == {SSH_DIR, RUNNER_DIR, NIXOS_CONFIG_DIR}
Paths == {AUTH_KEYS_FILE, RUNNER_TOKEN_FILE, RUNNER_URL_FILE,
          HOSTNAME_NIX, TIMEZONE_NIX, WIFI_NIX}

(***************************************************************************)
(* Strings                                                                 *)
(***************************************************************************)
Upper == {"A", "B", "C", "D", "I", "J", "Q", "U"}
Lower == {"a", "b", "c", "d", "e", "f", "h", "i", "k", "l", "n", "o", "p", "r", "s", "t", "u", "x"}
Digit == {"0", "1", "2", "4", "5", "9"}

\* The characters of the one-token strings the model uses.
Chars(w) ==
    CASE w = "" -> <<>>
      [] w = "ssh-ed25519" -> <<"s","s","h","-","e","d","2","5","5","1","9">>
      [] w = "ssh-rsa" -> <<"s","s","h","-","r","s","a">>
      [] w = "ssh-foo" -> <<"s","s","h","-","f","o","o">>
      [] w = "QUJD" -> <<"Q","U","J","D">>
      [] w = "QUI=" -> <<"Q","U","I","=">>
      [] w = "QQ==" -> <<"Q","Q","=","=">>
      [] w = "Q===" -> <<"Q","=","=","=">>
      [] w = "=" -> <<"=">>
      [] w = "Q=Q" -> <<"Q","=","Q">>
      [] w = "!!!" -> <<"!","!","!">>
      [] w = "octocat" -> <<"o","c","t","o","c","a","t">>
      [] w = "bad_user" -> <<"b","a","d","_","u","s","e","r">>
      [] w = "pi4-smoke-test" -> <<"p","i","4","-","s","x","x","x","x","-","t","e","s","t">>
      [] w = "pi-lab" -> <<"p","i","-","l","a","b">>
      [] w = "pi.lab" -> <<"p","i",".","l","a","b">>
      [] w = "a*64" -> [i \in 1..64 |-> "a"]
      [] w = "a*63" -> [i \in 1..63 |-> "a"]
      [] w = "p*7" -> [i \in 1..7 |-> "p"]
      [] w = "p*8" -> [i \in 1..8 |-> "p"]
      [] w = "net" -> <<"n","e","t">>
      [] w = "ghp_token" -> <<"g","h","p","_","t","o","k","e","n">>
      [] w = "ghp_a*36" -> <<"g","h","p","_">> \o [i \in 1..36 |-> "a"]
      [] w = "ghx_a*36" -> <<"g","h","x","_">> \o [i \in 1..36 |-> "a"]
      [] OTHER -> <<"?">>

IsSpace(c) == c \in {" ", "\n"}

RECURSIVE lstrip(_)
lstrip(s) == IF s # <<>> /\ IsSpace(Head(s)) THEN lstrip(Tail(s)) ELSE s

RECURSIVE rstrip(_)
rstrip(s) ==
    IF s # <<>> /\ IsSpace(s[Len(s)]) THEN rstrip(SubSeq(s, 1, Len(s) - 1)) ELSE s

\* str.strip()
strip(s) == rstrip(lstrip(s))

\* str.split(): the words, split at runs of whitespace
RECURSIVE split(_)
split(s) ==
    IF s = <<>> THEN <<>>
    ELSE IF IsSpace(Head(s)) THEN split(Tail(s))
    ELSE <<Head(s)>> \o split(Tail(s))

\* str.split('\n'): the lines, each a text
RECURSIVE split_nl(_, _)
split_nl(s, cur) ==
    IF s = <<>> THEN <<cur>>
    ELSE IF Head(s) = "\n" THEN <<cur>> \o split_nl(Tail(s), <<>>)
    ELSE split_nl(Tail(s), Append(cur, Head(s)))

\* '\n'.join(lines)
RECURSIVE join_nl(_)
join_nl(lines) ==
    IF lines = <<>> THEN <<>>
    ELSE IF Len(lines) = 1 THEN lines[1]
    ELSE lines[1] \o <<"\n">> \o join_nl(Tail(lines))

\* The characters of a text: its items' characters, in order.
RECURSIVE TextChars(_)
TextChars(t) ==
    IF t = <<>> THEN <<>>
    ELSE (IF IsSpace(Head(t)) THEN <<Head(t)>> ELSE Chars(Head(t))) \o TextChars(Tail(t))

\* len(s)
len(t) == Len(TextChars(t))

\* match_base64, were any number of '=' allowed at the end
match_base64_any_padding(w) ==
    LET cs == Chars(w)
        n  == Len(cs)
    IN \E j \in 1..n :
          /\ \A i \in 1..j : cs[i] \in Upper \cup Lower \cup Digit \cup {"+", "/"}
          /\ \A i \in (j + 1)..n : cs[i] = "="

\* re.match(r'^[A-Za-z0-9+/]+={0,2}$', w), w one word
match_base64(w) ==
    LET cs == Chars(w)
        n  == Len(cs)
    IN \E j \in 1..n :
          /\ \A i \in 1..j : cs[i] \in Upper \cup Lower \cup Digit \cup {"+", "/"}
          /\ \A i \in (j + 1)..n : cs[i] = "="
          /\ n - j <= 2

\* re.match(r'^[a-zA-Z0-9-]+$', t)
match_name(t) ==
    LET cs == TextChars(t)
    IN /\ cs # <<>>
       /\ \A i \in 1..Len(cs) : cs[i] \in Upper \cup Lower \cup Digit \cup {"-"}

valid_types ==
    {"ssh-rsa", "ssh-ed25519", "ssh-dss", "ecdsa-sha2-nistp256", "ecdsa-sha2-nistp384",
     "ecdsa-sha2-nistp521", "sk-ssh-ed25519", "sk-ecdsa-sha2-nistp256"}

\* validate_ssh_key(key)[0]
validate_ssh_key(key) ==
    LET k     == strip(key)
        parts == split(k)
    IN IF k = <<>> THEN FALSE
       ELSE IF Len(parts) < 2 THEN FALSE
       ELSE IF parts[1] \notin valid_types THEN FALSE
       ELSE IF ~match_base64(parts[2]) THEN FALSE
       ELSE TRUE

(***************************************************************************)
(* Key sources and the host probe                                          *)
(***************************************************************************)
\* fetch_github_keys(username); net is what urlopen does: [kind |-> "urlerror"] or
\* [kind |-> "body", body |-> the response text]
fetch_github_keys(username, net) ==
    IF username = <<>> \/ ~match_name(username) THEN [ok |-> FALSE, result |-> <<>>]
    ELSE IF net.kind # "body" THEN [ok |-> FALSE, result |-> <<>>]
    ELSE IF strip(net.body) = <<>> THEN [ok |-> FALSE, result |-> <<>>]
    ELSE [ok |-> TRUE, result |-> strip(net.body)]

\* valid_keys, were the lines kept without validation
RECURSIVE valid_keys_unchecked(_)
valid_keys_unchecked(lines) ==
    IF lines = <<>> THEN <<>>
    ELSE LET key == strip(Head(lines))
         IN (IF key # <<>> THEN <<key>> ELSE <<>>) \o valid_keys_unchecked(Tail(lines))

\* The loop of SSHGithubScreen over the response's lines: the stripped lines that
\* are not empty and pass validate_ssh_key, in order.
RECURSIVE valid_keys(_)
valid_keys(lines) ==
    IF lines = <<>> THEN <<>>
    ELSE LET key == strip(Head(lines))
         IN (IF key # <<>> /\ validate_ssh_key(key) THEN <<key>> ELSE <<>>)
                \o valid_keys(Tail(lines))

\* read_key_from_file(path); rd is what the file holds: [kind |-> "missing"],
\* [kind |-> "oserror"] or [kind |-> "content", content |-> text]
read_key_from_file(path, rd) ==
    IF rd.kind # "content" THEN [ok |-> FALSE, result |-> <<>>]
    ELSE IF strip(rd.content) = <<>> THEN [ok |-> FALSE, result |-> <<>>]
    ELSE [ok |-> TRUE, result |-> strip(rd.content)]

\* detect_wifi_interface(); iw is what `iw dev` does: [kind |-> "timeout"],
\* [kind |-> "notfound"] or [kind |-> "ran", returncode |-> n, stdout |-> text].
\* re.search(r'Interface\s+(\w+)') finds the word after the first "Interface"
\* that is followed by whitespace and a word.  "None" stands for None.
RECURSIVE search_interface(_)
search_interface(out) ==
    IF Len(out) < 3 THEN "None"
    ELSE IF out[1] = "Interface" /\ IsSpace(out[2]) /\ lstrip(Tail(out)) # <<>>
         THEN lstrip(Tail(out))[1]
         ELSE search_interface(Tail(out))

detect_wifi_interface(iw) ==
    IF iw.kind # "ran" THEN "None"
    ELSE IF iw.returncode = 0 /\ \E i \in 1..Len(iw.stdout) : iw.stdout[i] = "Interface"
         THEN search_interface(iw.stdout)
         ELSE "None"

(***************************************************************************)
(* What the operator and the host supply.  A profile p names the inputs a  *)
(* specification draws from: the values typed, what the network, the key   *)
(* file, `iw dev` and nixos-rebuild answer, which of the quit, cancel and  *)
(* back buttons the operator uses, and which filesystem calls may raise.   *)
(***************************************************************************)
KeyA == <<"ssh-ed25519", " ", "QUJD">>
KeyB == <<"ssh-rsa", " ", "QUI=">>
KeyC == <<"ssh-ed25519", " ", "QQ==">>

IwOutputs ==
    {[kind |-> "ran", returncode |-> 0, stdout |-> <<"Interface", " ", "wlan0">>],
     [kind |-> "ran", returncode |-> 0, stdout |-> <<>>],
     [kind |-> "ran", returncode |-> 1, stdout |-> <<"Interface", " ", "wlan0">>],
     [kind |-> "notfound", returncode |-> 0, stdout |-> <<>>]}

\* A stream of n characters whose first 500 are "a" and the others "z".
Stream(n) == [i \in 1..n |-> IF i <= 500 THEN "a" ELSE "z"]

Wide ==
    [usernames |-> {<<>>, <<" ", "octocat">>, <<"bad_user">>},
     nets      |-> {[kind |-> "urlerror", body |-> <<>>],
                    [kind |-> "body", body |-> <<"\n">>],
                    [kind |-> "body", body |-> KeyA \o <<"\n">> \o <<"ssh-rsa", " ", "!!!">> \o <<"\n">>],
                    [kind |-> "body", body |-> <<"ssh-foo", " ", "QUJD", "\n">>]},
     pastes    |-> {<<>>, KeyB \o <<"\n">>, <<"ssh-rsa", " ", "!!!">>, <<"ssh-rsa">>},
     paths     |-> {<<>>, <<"/mnt/usb/id_rsa.pub">>},
     reads     |-> {[kind |-> "missing", content |-> <<>>],
                    [kind |-> "content", content |-> <<"\n">>],
                    [kind |-> "content", content |-> KeyC \o <<"\n">>],
                    [kind |-> "content", content |-> <<"ssh-foo", " ", "QUJD">>]},
     tokens    |-> {<<>>, <<"ghp_token">>},
     urls      |-> {<<>>, DEFAULT_RUNNER_URL},
     hostnames |-> {<<>>, <<"pi-lab">>, <<"pi.lab">>, <<"a*64">>},
     timezones |-> {<<"UTC">>, <<"Europe/Zurich">>, <<>>},
     ssids     |-> {<<>>, <<"net">>},
     passwords |-> {<<"p*7">>, <<"p*8">>},
     iws       |-> IwOutputs,
     buttons   |-> {"quit", "cancel", "back"},
     ops       |-> {"mkdir", "chmod", "chown", "backup", "open", "write", "unlink"},
     rebuilds  |-> {[kind |-> "raise", returncode |-> 0, stderr |-> <<>>],
                    [kind |-> "exit", returncode |-> 0, stderr |-> <<>>],
                    [kind |-> "exit", returncode |-> 0, stderr |-> <<"w">>],
                    [kind |-> "exit", returncode |-> 1, stderr |-> <<>>],
                    [kind |-> "exit", returncode |-> 1, stderr |-> <<"E">>],
                    [kind |-> "exit", returncode |-> 1, stderr |-> Stream(600)],
                    [kind |-> "exit", returncode |-> 1, stderr |-> Stream(1200)]}]

(***************************************************************************)
(* The session                                                             *)
(***************************************************************************)
\* SetupState.__init__
SetupState ==
    [ssh_method          |-> "None",
     ssh_github_username |-> <<>>,
     ssh_public_key      |-> <<>>,
     ssh_file_path       |-> <<>>,
     validated_ssh_key   |-> <<>>,
     runner_token        |-> <<>>,
     runner_url          |-> DEFAULT_RUNNER_URL,
     hostname            |-> DEFAULT_HOSTNAME,
     timezone            |-> DEFAULT_TIMEZONE,
     configure_wifi      |-> FALSE,
     wifi_ssid           |-> <<>>,
     wifi_password       |-> <<>>]

Stages == <<"ssh", "runner", "hostname", "timezone", "wifi", "rebuild">>

applyvars == <<apply_pc, step, attempted, error_log, status_log, exit_disabled>>

hostvars == <<fs, now, written, stderr>>

\* The active screen.
Top == IF screen_stack = <<>> THEN "None" ELSE screen_stack[Len(screen_stack)]

\* push_screen, were it App.switch_screen: the active screen is replaced
push_screen_switch(stack, screen) == Append(SubSeq(stack, 1, Len(stack) - 1), screen)

\* App.push_screen / App.pop_screen on the screen stack
push_screen(stack, screen) == Append(stack, screen)

\* pop_screen, were it to pop two screens
pop_screen_two(stack) == SubSeq(stack, 1, Len(stack) - 2)

pop_screen(stack) == SubSeq(stack, 1, Len(stack) - 1)

\* A handler runs on the active screen of a running app.
On(screen) == proc = "running" /\ Top = screen

\* A handler call that read no input widget.
NoInput == [screen |-> "None", value |-> <<>>, msg |-> ""]

\* The values a continue handler read from the widgets of a screen; msg is what
\* the handler then put in the screen's #status_msg: "", "error" or "warning".
Input(screen, value) == [screen |-> screen, value |-> value, msg |-> ""]

\* app_exit, were the press ignored
app_exit_ignored == UNCHANGED vars

\* self.app.exit(): app.run() returns and main() returns 0
app_exit ==
    /\ proc' = "exited"
    /\ exit_code' = 0
    /\ entered' = NoInput
    /\ UNCHANGED <<runs, screen_stack, state, wifi_iface, applyvars, hostvars>>

\* on_mount, were SummaryScreen to start the task as well
on_mount_eager(screen) ==
    IF screen \in {"SummaryScreen", "ApplyScreen"} THEN "apply_configuration" ELSE "nothing"

\* What mounting a screen starts: ApplyScreen.on_mount creates the task that runs
\* apply_configuration; no other screen has an on_mount.
on_mount(screen) == IF screen = "ApplyScreen" THEN "apply_configuration" ELSE "nothing"

\* self.app.push_screen(screen), after the handler has left the record as st.  The
\* task of apply_configuration runs up to its first sleep.
Push(screen, st) ==
    /\ screen_stack' = push_screen(screen_stack, screen)
    /\ state' = st
    /\ IF on_mount(screen) = "apply_configuration"
       THEN /\ apply_pc' = Stages[1]
            /\ step' = 1
            /\ status_log' = "1/6"
            /\ UNCHANGED <<attempted, error_log, exit_disabled>>
       ELSE UNCHANGED applyvars
    /\ UNCHANGED <<proc, exit_code, runs, hostvars>>

\* Forward, were it to put the defaults back
Forward_defaults(screen, st) ==
    /\ Push(screen, [st EXCEPT !.hostname = DEFAULT_HOSTNAME, !.timezone = DEFAULT_TIMEZONE])
    /\ entered' = NoInput
    /\ UNCHANGED wifi_iface

\* Forward, were what the handler staged dropped
Forward_unstaged(screen, st) == Push(screen, state) /\ entered' = NoInput /\ UNCHANGED wifi_iface

\* A press that reads no input widget and pushes screen: select, skip, apply.
Forward(screen, st) == Push(screen, st) /\ entered' = NoInput /\ UNCHANGED wifi_iface

\* A continue handler accepts what it read: it stages st and pushes screen.
Accept(screen, st, input) == Push(screen, st) /\ entered' = input /\ UNCHANGED wifi_iface

\* Reject, were the handler to pop the screen as well
Reject_pops(input) ==
    /\ entered' = [input EXCEPT !.msg = "error"]
    /\ screen_stack' = pop_screen(screen_stack)
    /\ UNCHANGED <<proc, exit_code, runs, state, wifi_iface, applyvars, hostvars>>

\* A continue handler rejects what it read: it updates #status_msg and returns.
Reject(input) ==
    /\ entered' = [input EXCEPT !.msg = "error"]
    /\ UNCHANGED <<proc, exit_code, runs, screen_stack, state, wifi_iface, applyvars, hostvars>>

\* self.app.pop_screen()
Back ==
    /\ screen_stack' = pop_screen(screen_stack)
    /\ entered' = NoInput
    /\ UNCHANGED <<proc, exit_code, runs, state, wifi_iface, applyvars, hostvars>>

WelcomeScreen_on_button_pressed(p) ==
    /\ On("WelcomeScreen")
    /\ \/ Forward("SSHMethodScreen", state)
       \/ "quit" \in p.buttons /\ app_exit

SSHMethodScreen_on_button_pressed(p) ==
    /\ On("SSHMethodScreen")
    /\ \/ "cancel" \in p.buttons /\ app_exit
       \/ "back" \in p.buttons /\ Back
       \/ \E selected \in {"github", "paste", "file"} :
             Forward(CASE selected = "github" -> "SSHGithubScreen"
                       [] selected = "paste" -> "SSHPasteScreen"
                       [] selected = "file" -> "SSHFileScreen",
                     [state EXCEPT !.ssh_method = selected])

SSHGithubScreen_on_button_pressed(p) ==
    /\ On("SSHGithubScreen")
    /\ \/ "cancel" \in p.buttons /\ app_exit
       \/ "back" \in p.buttons /\ Back
       \/ \E value \in p.usernames, net \in p.nets :
             LET username == strip(value)
                 fetched  == fetch_github_keys(username, net)
                 keys     == valid_keys(split_nl(fetched.result, <<>>))
                 input    == Input("SSHGithubScreen", <<value, net>>)
             IN IF username # <<>> /\ fetched.ok /\ keys # <<>>
                THEN Accept("GitHubRunnerScreen",
                         [state EXCEPT !.ssh_github_username = username,
                                       !.validated_ssh_key = join_nl(keys)],
                         input)
                ELSE Reject(input)

SSHPasteScreen_on_button_pressed(p) ==
    /\ On("SSHPasteScreen")
    /\ \/ "cancel" \in p.buttons /\ app_exit
       \/ "back" \in p.buttons /\ Back
       \/ \E text \in p.pastes :
             LET key   == strip(text)
                 input == Input("SSHPasteScreen", <<text>>)
             IN IF validate_ssh_key(key)
                THEN Accept("GitHubRunnerScreen",
                         [state EXCEPT !.ssh_public_key = key,
                                       !.validated_ssh_key = key],
                         input)
                ELSE Reject(input)

SSHFileScreen_on_button_pressed(p) ==
    /\ On("SSHFileScreen")
    /\ \/ "cancel" \in p.buttons /\ app_exit
       \/ "back" \in p.buttons /\ Back
       \/ \E value \in p.paths, rd \in p.reads :
             LET file_path == strip(value)
                 got       == read_key_from_file(file_path, rd)
                 input     == Input("SSHFileScreen", <<value, rd>>)
             IN IF file_path # <<>> /\ got.ok /\ validate_ssh_key(got.result)
                THEN Accept("GitHubRunnerScreen",
                         [state EXCEPT !.ssh_file_path = file_path,
                                       !.validated_ssh_key = got.result],
                         input)
                ELSE Reject(input)

\* re.match(r'^(ghp_|ghs_)[a-zA-Z0-9]{36,}$', token)
match_token(t) ==
    LET cs == TextChars(t)
    IN /\ Len(cs) >= 4 + 36
       /\ SubSeq(cs, 1, 4) \in {<<"g", "h", "p", "_">>, <<"g", "h", "s", "_">>}
       /\ \A i \in 5..Len(cs) : cs[i] \in Upper \cup Lower \cup Digit

\* runner_ok, were an unusual token to block
runner_ok_strict(token, url) == token # <<>> /\ url # <<>> /\ match_token(token)

\* The checks of GitHubRunnerScreen's continue that return early, on the stripped values.
runner_ok(token, url) == token # <<>> /\ url # <<>>

GitHubRunnerScreen_on_button_pressed(p) ==
    /\ On("GitHubRunnerScreen")
    /\ \/ "cancel" \in p.buttons /\ app_exit
       \/ "back" \in p.buttons /\ Back
       \/ \E tv \in p.tokens, uv \in p.urls :
             LET token == strip(tv)
                 url   == strip(uv)
                 input == Input("GitHubRunnerScreen", <<tv, uv>>)
             IN IF runner_ok(token, url)
                THEN Accept("HostNameScreen",
                         [state EXCEPT !.runner_token = token, !.runner_url = url],
                         [input EXCEPT !.msg = IF match_token(token) THEN "" ELSE "warning"])
                ELSE Reject(input)

\* hostname_ok, were 64 characters allowed
hostname_ok_64(hostname) == hostname # <<>> /\ match_name(hostname) /\ ~(len(hostname) > 64)

\* The checks of HostNameScreen's continue on the stripped value.
hostname_ok(hostname) == hostname # <<>> /\ match_name(hostname) /\ ~(len(hostname) > 63)

HostNameScreen_on_button_pressed(p) ==
    /\ On("HostNameScreen")
    /\ \/ "cancel" \in p.buttons /\ app_exit
       \/ "back" \in p.buttons /\ Back
       \/ Forward("TimezoneScreen", state)
       \/ \E value \in p.hostnames :
             LET hostname == strip(value)
                 input    == Input("HostNameScreen", <<value>>)
             IN IF hostname_ok(hostname)
                THEN Accept("TimezoneScreen", [state EXCEPT !.hostname = hostname], input)
                ELSE Reject(input)

\* after_timezone, were the probe's result not consulted
after_timezone_unprobed(iface) == "WiFiScreen"

\* Where TimezoneScreen goes on continue and skip, by the probe's result.
after_timezone(iface) == IF iface # "None" THEN "WiFiScreen" ELSE "SummaryScreen"

TimezoneScreen_on_button_pressed(p) ==
    /\ On("TimezoneScreen")
    /\ \/ "cancel" \in p.buttons /\ app_exit
       \/ "back" \in p.buttons /\ Back
       \/ \E button \in {"continue", "skip"}, value \in p.timezones, iw \in p.iws :
             /\ wifi_iface' = detect_wifi_interface(iw)
             /\ entered' = IF button = "continue"
                           THEN Input("TimezoneScreen", <<value>>)
                           ELSE NoInput
             /\ Push(after_timezone(wifi_iface'),
                     IF button = "continue" /\ value # <<>>
                     THEN [state EXCEPT !.timezone = value]
                     ELSE state)

\* wifi_ok, were the password's length not checked
wifi_ok_ssid_only(ssid, password) == ssid # <<>>

\* The checks of WiFiScreen's continue, configure checked, on the stripped values.
wifi_ok(ssid, password) == ssid # <<>> /\ ~(len(password) < 8)

WiFiScreen_on_button_pressed(p) ==
    /\ On("WiFiScreen")
    /\ \/ "cancel" \in p.buttons /\ app_exit
       \/ "back" \in p.buttons /\ Back
       \/ Forward("SummaryScreen",
               [state EXCEPT !.configure_wifi = FALSE])
       \/ \E configure \in BOOLEAN, sv \in p.ssids, pv \in p.passwords :
             LET ssid     == strip(sv)
                 password == strip(pv)
                 input    == Input("WiFiScreen", <<configure, sv, pv>>)
             IN IF configure
                THEN IF wifi_ok(ssid, password)
                     THEN Accept("SummaryScreen",
                              [state EXCEPT !.configure_wifi = TRUE,
                                            !.wifi_ssid = ssid,
                                            !.wifi_password = password],
                              input)
                     ELSE Reject(input)
                ELSE Accept("SummaryScreen",
                         [state EXCEPT !.configure_wifi = FALSE],
                         input)

SummaryScreen_on_button_pressed(p) ==
    /\ On("SummaryScreen")
    /\ \/ "cancel" \in p.buttons /\ app_exit
       \/ "back" \in p.buttons /\ Back
       \/ Forward("ApplyScreen", state)

\* ApplyScreen's handler: the Exit button, which a disabled button does not press.
ApplyScreen_on_button_pressed ==
    /\ On("ApplyScreen")
    /\ ~exit_disabled
    /\ app_exit

(***************************************************************************)
(* The filesystem                                                          *)
(***************************************************************************)
Absent == [exists |-> FALSE, content |-> <<>>, mode |-> "", owner |-> ""]

Parent(path) ==
    CASE path = AUTH_KEYS_FILE -> SSH_DIR
      [] path \in {RUNNER_TOKEN_FILE, RUNNER_URL_FILE} -> RUNNER_DIR
      [] OTHER -> NIXOS_CONFIG_DIR

\* datetime.now().strftime("%Y%m%d_%H%M%S"): the clock, to the second
timestamp(t) == t \div 2

\* backup_file, were it to keep only the first backup of a path
backup_file_once(f, path, t) ==
    IF f.files[path].exists /\ ~\E b \in f.backups : b.path = path
    THEN [f EXCEPT !.backups =
            @ \cup {[path |-> path, ts |-> timestamp(t),
                     content |-> f.files[path].content, mode |-> f.files[path].mode]}]
    ELSE f

\* backup_file(path) at time t: shutil.copy2 to "<path>.backup.<timestamp>",
\* replacing a file of that name; nothing when path does not exist
backup_file(f, path, t) ==
    IF f.files[path].exists
    THEN [f EXCEPT !.backups =
            {b \in @ : ~(b.path = path /\ b.ts = timestamp(t))}
                \cup {[path |-> path, ts |-> timestamp(t),
                       content |-> f.files[path].content, mode |-> f.files[path].mode]}]
    ELSE f

\* One filesystem call of a stage, done at time t.
Effect(f, c, t) ==
    CASE c.op = "mkdir" ->
            IF f.dirs[c.target].exists THEN f
            ELSE [f EXCEPT !.dirs[c.target] =
                     [exists |-> TRUE, content |-> <<>>, mode |-> "0755", owner |-> "root"]]
      [] c.op = "chmod" ->
            IF c.target \in Dirs THEN [f EXCEPT !.dirs[c.target].mode = c.arg[1]]
            ELSE [f EXCEPT !.files[c.target].mode = c.arg[1]]
      [] c.op = "chown" ->
            IF c.target \in Dirs THEN [f EXCEPT !.dirs[c.target].owner = c.arg[1]]
            ELSE [f EXCEPT !.files[c.target].owner = c.arg[1]]
      [] c.op = "backup" -> backup_file(f, c.target, t)
      [] c.op = "open" ->
            IF f.files[c.target].exists THEN [f EXCEPT !.files[c.target].content = <<>>]
            ELSE [f EXCEPT !.files[c.target] =
                     [exists |-> TRUE, content |-> <<>>, mode |-> "0644", owner |-> "root"]]
      [] c.op = "write" -> [f EXCEPT !.files[c.target].content = c.arg]
      [] c.op = "unlink" -> [f EXCEPT !.files[c.target] = Absent]

\* A call that raises whatever else the environment does: open() under a missing
\* directory, shutil.chown to a user the host does not have (LookupError).
MustRaise(f, c) ==
    \/ c.op = "open" /\ ~f.dirs[Parent(c.target)].exists
    \/ c.op = "chown" /\ c.arg[1] \notin f.users

\* A call that cannot raise: backup_file of a path that does not exist.
CannotRaise(f, c) == c.op = "backup" /\ ~f.files[c.target].exists

Call(op, target, arg) == [op |-> op, target |-> target, arg |-> arg]

hostname_nix(st) == <<"networking.hostName", " ", "=", " ">> \o st.hostname \o <<"\n">>

timezone_nix(st) == <<"time.timeZone", " ", "=", " ">> \o st.timezone \o <<"\n">>

wifi_nix(st) ==
    <<"networking.wireless.networks", " ">> \o st.wifi_ssid
        \o <<" ", "psk", " ", "=", " ">> \o st.wifi_password \o <<"\n">>

\* The filesystem calls of each stage's try block, in order.
ssh_block(st) ==
    <<Call("mkdir", SSH_DIR, <<>>),
      Call("chmod", SSH_DIR, <<"0700">>),
      Call("backup", AUTH_KEYS_FILE, <<>>),
      Call("open", AUTH_KEYS_FILE, <<>>),
      Call("write", AUTH_KEYS_FILE, st.validated_ssh_key \o <<"\n">>),
      Call("chmod", AUTH_KEYS_FILE, <<"0600">>),
      Call("chown", SSH_DIR, <<"pi">>),
      Call("chown", AUTH_KEYS_FILE, <<"pi">>)>>

runner_block(st) ==
    <<Call("mkdir", RUNNER_DIR, <<>>),
      Call("chown", RUNNER_DIR, <<"github-runner">>),
      Call("backup", RUNNER_TOKEN_FILE, <<>>),
      Call("backup", RUNNER_URL_FILE, <<>>),
      Call("open", RUNNER_TOKEN_FILE, <<>>),
      Call("write", RUNNER_TOKEN_FILE, st.runner_token \o <<"\n">>),
      Call("chmod", RUNNER_TOKEN_FILE, <<"0600">>),
      Call("chown", RUNNER_TOKEN_FILE, <<"github-runner">>),
      Call("open", RUNNER_URL_FILE, <<>>),
      Call("write", RUNNER_URL_FILE, st.runner_url \o <<"\n">>),
      Call("chmod", RUNNER_URL_FILE, <<"0600">>),
      Call("chown", RUNNER_URL_FILE, <<"github-runner">>)>>

hostname_block(st) ==
    <<Call("mkdir", NIXOS_CONFIG_DIR, <<>>),
      Call("backup", HOSTNAME_NIX, <<>>),
      Call("open", HOSTNAME_NIX, <<>>),
      Call("write", HOSTNAME_NIX, hostname_nix(st))>>

\* timezone_block, were the fragment not written
timezone_block_backup_only(st) == <<Call("backup", TIMEZONE_NIX, <<>>)>>

timezone_block(st) ==
    <<Call("backup", TIMEZONE_NIX, <<>>),
      Call("open", TIMEZONE_NIX, <<>>),
      Call("write", TIMEZONE_NIX, timezone_nix(st))>>

\* wifi_block, were it to leave an existing wifi.nix in place
wifi_block_keeps(st, f) ==
    IF st.configure_wifi
    THEN <<Call("backup", WIFI_NIX, <<>>),
           Call("open", WIFI_NIX, <<>>),
           Call("write", WIFI_NIX, wifi_nix(st))>>
    ELSE <<>>

wifi_block(st, f) ==
    IF st.configure_wifi
    THEN <<Call("backup", WIFI_NIX, <<>>),
           Call("open", WIFI_NIX, <<>>),
           Call("write", WIFI_NIX, wifi_nix(st))>>
    ELSE IF f.files[WIFI_NIX].exists
         THEN <<Call("backup", WIFI_NIX, <<>>), Call("unlink", WIFI_NIX, <<>>)>>
         ELSE <<>>

try_block(stage, st, f) ==
    CASE stage = "ssh" -> ssh_block(st)
      [] stage = "runner" -> runner_block(st)
      [] stage = "hostname" -> hostname_block(st)
      [] stage = "timezone" -> timezone_block(st)
      [] stage = "wifi" -> wifi_block(st, f)

\* Run the calls from the k-th on; the fault-th call raises (0: none does).
RECURSIVE run_try(_, _, _, _, _)
run_try(f, calls, k, fault, t) ==
    IF k > Len(calls) THEN [fs |-> f, ok |-> TRUE, raised |-> ""]
    ELSE IF k = fault \/ MustRaise(f, calls[k])
         THEN [fs |-> f, ok |-> FALSE, raised |-> calls[k].op]
         ELSE run_try(Effect(f, calls[k], t), calls, k + 1, fault, t)

\* The calls the environment may make raise, under profile p: 0 is none.
Faults(p, f, calls) ==
    {0} \cup {k \in 1..Len(calls) : calls[k].op \in p.ops /\ ~CannotRaise(f, calls[k])}

(***************************************************************************)
(* apply_configuration                                                     *)
(***************************************************************************)
StageIndex(stage) == CHOOSE i \in 1..Len(Stages) : Stages[i] = stage

\* following, were the wifi block left out of the sequence
following_skips_wifi(stage) ==
    IF stage = "timezone" THEN "rebuild" ELSE Stages[StageIndex(stage) + 1]

\* The stage whose block follows a stage's block in apply_configuration.
following(stage) == Stages[StageIndex(stage) + 1]

StatusOf(n) ==
    CASE n = 1 -> "1/6" [] n = 2 -> "2/6" [] n = 3 -> "3/6"
      [] n = 4 -> "4/6" [] n = 5 -> "5/6" [] n = 6 -> "6/6"

\* stage_failed, were the failure not shown
stage_failed_silent(stage, detail) ==
    /\ exit_disabled' = FALSE
    /\ apply_pc' = "done"
    /\ UNCHANGED <<step, status_log, error_log>>

\* the except branch of a stage
stage_failed(stage, detail) ==
    /\ error_log' = <<stage, detail>>
    /\ exit_disabled' = FALSE
    /\ apply_pc' = "done"
    /\ UNCHANGED <<step, status_log>>

\* after a stage's try block: the next stage's heading, up to its sleep
stage_passed(stage) ==
    /\ apply_pc' = following(stage)
    /\ step' = step + 1
    /\ status_log' = StatusOf(step + 1)
    /\ UNCHANGED <<error_log, exit_disabled>>

\* One of the five file stages: the task wakes from asyncio.sleep(0.5) and runs the
\* stage's try block.
file_stage(stage, p) ==
    /\ proc = "running"
    /\ apply_pc = stage
    /\ now' = now + 1
    /\ attempted' = Append(attempted, stage)
    /\ LET calls == try_block(stage, state, fs)
       IN \E fault \in Faults(p, fs, calls) :
             LET r == run_try(fs, calls, 1, fault, now')
             IN /\ fs' = r.fs
                /\ written' = IF stage = "hostname" /\ r.ok
                              THEN Append(written, [hostname |-> state.hostname,
                                                    ts |-> timestamp(now'),
                                                    prior |-> fs.files[HOSTNAME_NIX]])
                              ELSE written
                /\ IF r.ok THEN stage_passed(stage) ELSE stage_failed(stage, r.raised)
    /\ UNCHANGED <<proc, exit_code, runs, screen_stack, state, wifi_iface, entered, stderr>>

stage_ssh(p) == file_stage("ssh", p)

stage_runner(p) == file_stage("runner", p)

stage_hostname(p) == file_stage("hostname", p)

stage_timezone(p) == file_stage("timezone", p)

stage_wifi(p) == file_stage("wifi", p)

\* The rebuild stage and the end of apply_configuration.
\* "Unknown error", by character
UnknownError == <<"U", "n", "k", "n", "o", "w", "n", " ", "e", "r", "r", "o", "r">>

ErrorShown == 500

\* error_msg[:500]
error_msg_slice(error_msg) ==
    IF Len(error_msg) <= ErrorShown THEN error_msg ELSE SubSeq(error_msg, 1, ErrorShown)

\* rebuild_failed, were show_exit_button not called
rebuild_failed_hidden(err) ==
    /\ error_log' = <<"rebuild", "nixos-rebuild failed",
                      error_msg_slice(IF err # <<>> THEN err ELSE UnknownError)>>
    /\ apply_pc' = "done"
    /\ UNCHANGED <<step, status_log, exit_disabled>>

\* the branch of a non-zero returncode: the error display gets the message
rebuild_failed(err) ==
    /\ error_log' = <<"rebuild", "nixos-rebuild failed",
                      error_msg_slice(IF err # <<>> THEN err ELSE UnknownError)>>
    /\ exit_disabled' = FALSE
    /\ apply_pc' = "done"
    /\ UNCHANGED <<step, status_log>>

stage_rebuild(p) ==
    /\ proc = "running"
    /\ apply_pc = "rebuild"
    /\ now' = now + 1
    /\ attempted' = Append(attempted, "rebuild")
    /\ \E result \in p.rebuilds :
          /\ stderr' = IF result.kind = "exit" THEN result.stderr ELSE <<>>
          /\ IF result.kind = "raise" THEN stage_failed("rebuild", "exec")
             ELSE IF result.returncode # 0 THEN rebuild_failed(result.stderr)
             ELSE /\ status_log' = "success"
                  /\ exit_disabled' = FALSE
                  /\ apply_pc' = "done"
                  /\ UNCHANGED <<step, error_log>>
    /\ UNCHANGED <<proc, exit_code, runs, screen_stack, state, wifi_iface, fs, written, entered>>

(***************************************************************************)
(* The process                                                             *)
(***************************************************************************)
Fresh ==
    [files   |-> [path \in Paths |-> Absent],
     dirs    |-> [d \in Dirs |->
                    IF d = NIXOS_CONFIG_DIR
                    THEN [exists |-> TRUE, content |-> <<>>, mode |-> "0755", owner |-> "root"]
                    ELSE Absent],
     backups |-> {},
     users   |-> {}]

\* The users a host that was never provisioned may have.
FreshUsers == {{}, {"pi"}, {"pi", "github-runner"}}

Previous(path) == <<"previous", " ", path>>

Provisioned ==
    [files   |-> [path \in Paths |->
                    [exists  |-> TRUE,
                     content |-> Previous(path),
                     mode    |-> IF Parent(path) = NIXOS_CONFIG_DIR THEN "0644" ELSE "0600",
                     owner   |-> CASE Parent(path) = SSH_DIR -> "pi"
                                   [] Parent(path) = RUNNER_DIR -> "github-runner"
                                   [] OTHER -> "root"]],
     dirs    |-> [d \in Dirs |->
                    [exists  |-> TRUE,
                     content |-> <<>>,
                     mode    |-> IF d = SSH_DIR THEN "0700" ELSE "0755",
                     owner   |-> CASE d = SSH_DIR -> "pi"
                                   [] d = RUNNER_DIR -> "github-runner"
                                   [] OTHER -> "root"]],
     backups |-> {},
     users   |-> {"pi", "github-runner"}]

\* main() for effective uid euid, up to SetupApp.on_mount
main(euid) ==
    IF euid # 0
    THEN [proc |-> "exited", exit_code |-> 1, screen_stack |-> <<>>]
    ELSE [proc |-> "running", exit_code |-> -1,
          screen_stack |-> push_screen(<<>>, "WelcomeScreen")]

Init ==
    /\ \E euid \in {0, 1000} :
          /\ proc = main(euid).proc
          /\ exit_code = main(euid).exit_code
          /\ screen_stack = main(euid).screen_stack
    /\ runs = 1
    /\ state = SetupState
    /\ wifi_iface = "None"
    /\ apply_pc = "none"
    /\ step = 0
    /\ attempted = <<>>
    /\ error_log = <<>>
    /\ status_log = ""
    /\ exit_disabled = TRUE
    /\ fs \in {Provisioned} \cup {[Fresh EXCEPT !.users = u] : u \in FreshUsers}
    /\ now \in {0, 1}
    /\ written = <<>>
    /\ entered = NoInput
    /\ stderr = <<>>

\* The operator starts the tool again: a new process, the same host. datetime.now()
\* is the local wall clock: it reads later than when the previous process
\* exited, or it has been set back in between (end of daylight saving time, a
\* clock correction, the time zone the previous run applied).
Restart ==
    /\ proc = "exited"
    /\ runs < MaxRuns
    /\ runs' = runs + 1
    /\ \E euid \in {0, 1000} :
          /\ proc' = main(euid).proc
          /\ exit_code' = main(euid).exit_code
          /\ screen_stack' = main(euid).screen_stack
    /\ state' = SetupState
    /\ wifi_iface' = "None"
    /\ apply_pc' = "none"
    /\ step' = 0
    /\ attempted' = <<>>
    /\ error_log' = <<>>
    /\ status_log' = ""
    /\ exit_disabled' = TRUE
    /\ now' \in {0, now + 1}
    /\ entered' = NoInput
    /\ stderr' = <<>>
    /\ UNCHANGED <<fs, written>>

Session(p) ==
    \/ WelcomeScreen_on_button_pressed(p)
    \/ SSHMethodScreen_on_button_pressed(p)
    \/ SSHGithubScreen_on_button_pressed(p)
    \/ SSHPasteScreen_on_button_pressed(p)
    \/ SSHFileScreen_on_button_pressed(p)
    \/ GitHubRunnerScreen_on_button_pressed(p)
    \/ HostNameScreen_on_button_pressed(p)
    \/ TimezoneScreen_on_button_pressed(p)
    \/ WiFiScreen_on_button_pressed(p)
    \/ SummaryScreen_on_button_pressed(p)
    \/ ApplyScreen_on_button_pressed
    \/ stage_ssh(p)
    \/ stage_runner(p)
    \/ stage_hostname(p)
    \/ stage_timezone(p)
    \/ stage_wifi(p)
    \/ stage_rebuild(p)

\* One run of the tool.
Next == Session(Wide)

Spec == Init /\ [][Next]_vars

\* The operator goes forward only and meets no failure but a failing chown; every
\* key source supplies the same key.
Narrow ==
    [usernames |-> {<<"octocat">>},
     nets      |-> {[kind |-> "body", body |-> KeyA \o <<"\n">>]},
     pastes    |-> {KeyA},
     paths     |-> {<<"/mnt/usb/id_rsa.pub">>},
     reads     |-> {[kind |-> "content", content |-> KeyA \o <<"\n">>]},
     tokens    |-> {<<"ghp_token">>},
     urls      |-> {DEFAULT_RUNNER_URL},
     hostnames |-> {<<"pi-lab">>},
     timezones |-> {<<"UTC">>},
     ssids     |-> {<<"net">>},
     passwords |-> {<<"p*8">>},
     iws       |-> {[kind |-> "ran", returncode |-> 0, stdout |-> <<"Interface", " ", "wlan0">>],
                    [kind |-> "notfound", returncode |-> 0, stdout |-> <<>>]},
     buttons   |-> {},
     ops       |-> {"chown"},
     rebuilds  |-> {[kind |-> "exit", returncode |-> 0, stderr |-> <<>>],
                    [kind |-> "exit", returncode |-> 1, stderr |-> <<>>]}]

\* The steps of the task that runs apply_configuration.
Pipeline ==
    \/ stage_ssh(Wide)
    \/ stage_runner(Wide)
    \/ stage_hostname(Wide)
    \/ stage_timezone(Wide)
    \/ stage_wifi(Wide)
    \/ stage_rebuild(Wide)

\* One run of the tool in which the event loop resumes the task after each
\* asyncio.sleep and nixos-rebuild terminates.
SpecFair == Init /\ [][Next]_vars /\ WF_vars(Pipeline)

\* Several runs of the tool on one host.
NextRuns == Session(Narrow) \/ Restart

SpecRuns == Init /\ [][NextRuns]_vars

\* The operator types more kinds of values, uses every button, and the host
\* makes no filesystem call fail and nixos-rebuild succeed.
Typed ==
    [Wide EXCEPT
       !.nets      = {[kind |-> "urlerror", body |-> <<>>],
                      [kind |-> "body", body |-> <<"\n">>],
                      [kind |-> "body",
                       body |-> <<" ">> \o KeyA \o <<" ", "\n">> \o <<"ssh-rsa", " ", "!!!">>
                                   \o <<"\n", "\n">> \o KeyC \o <<"\n">>],
                      [kind |-> "body",
                       body |-> <<"ssh-foo", " ", "QUJD", "\n", "ssh-rsa", "\n">>]},
       !.pastes    = {<<>>, <<" ", "\n">>, KeyB \o <<"\n">>, <<"ssh-rsa", " ", "!!!">>,
                      <<"ssh-rsa">>, <<"ssh-foo", " ", "QUJD">>, <<"QUJD", " ", "ssh-rsa">>,
                      <<"ssh-rsa", " ", "Q===">>, <<"ssh-rsa", " ", "=">>,
                      <<"ssh-rsa", " ", "Q=Q">>,
                      KeyB \o <<"\n">> \o KeyC,
                      KeyB \o <<"\n">> \o <<"!!!">>},
       !.tokens    = {<<>>, <<" ">>, <<"ghp_token">>, <<" ", "ghp_a*36">>},
       !.urls      = {<<>>, <<" ">>, DEFAULT_RUNNER_URL},
       !.hostnames = {<<>>, <<"pi-lab">>, <<"pi-lab", " ">>, <<"pi.lab">>, <<"a*63">>, <<"a*64">>},
       !.timezones = {<<"UTC">>},
       !.passwords = {<<"p*7">>, <<"p*8">>, <<"p*7", " ">>, <<"p*7", " ", "!!!">>},
       !.ops       = {},
       !.rebuilds  = {[kind |-> "exit", returncode |-> 0, stderr |-> <<>>]}]

\* One run of the tool by root on a provisioned host.
InitTyped == Init /\ proc = "running" /\ fs = Provisioned /\ now = 0

NextTyped == Session(Typed)

SpecTyped == InitTyped /\ [][NextTyped]_vars

(***************************************************************************)
(* Claims                                                                  *)
(***************************************************************************)
StageNames == {Stages[i] : i \in 1..Len(Stages)}

InStack(screen) == \E i \in 1..Len(screen_stack) : screen_stack[i] = screen

BackupsOf(f, path) == {b \in f.backups : b.path = path}

\* C1 (as claimed): when apply_configuration has stopped, all six stages have been
\* attempted, whichever of them failed.
C1_AllStagesAttempted == apply_pc = "done" => attempted = Stages

\* C2: the stages run in the order ssh, runner, hostname, timezone, wifi, rebuild,
\* each at most once in a run: the stages attempted so far are always the first
\* stages of that order, the task waits before the stage that follows the last one
\* attempted, and rebuild is attempted only after the wifi stage has passed.
C2_StrictOrder ==
    /\ Len(attempted) <= Len(Stages)
    /\ \A i \in 1..Len(attempted) : attempted[i] = Stages[i]
    /\ apply_pc \in StageNames => Len(attempted) = StageIndex(apply_pc) - 1
    /\ apply_pc = "none" => attempted = <<>>
    /\ step = (IF apply_pc = "done" THEN Len(attempted)
               ELSE IF apply_pc = "none" THEN 0 ELSE Len(attempted) + 1)

C2_Witness ==
    /\ apply_pc = "done"
    /\ attempted = Stages
    /\ status_log = "success"

\* C3: apply_configuration starts only in the step in which "apply" is pressed on
\* SummaryScreen; no stage has run and the filesystem is untouched while it has not
\* started; a step of SummaryScreen that does not start it pops SummaryScreen, back
\* to TimezoneScreen or WiFiScreen, or ends the session.
C3_OnlyFromSummary ==
    [][/\ (apply_pc' # "none" /\ (apply_pc = "none" \/ step' < step))
            => /\ Top = "SummaryScreen"
               /\ screen_stack' = Append(screen_stack, "ApplyScreen")
               /\ apply_pc = "none"
       /\ apply_pc' = "none" /\ runs' = runs
            => /\ attempted' = <<>>
               /\ fs' = fs
       /\ (Top = "SummaryScreen" /\ apply_pc' = "none" /\ runs' = runs)
            => \/ /\ proc' = "exited"
                  /\ screen_stack' = screen_stack
               \/ /\ proc' = "running"
                  /\ screen_stack' = SubSeq(screen_stack, 1, Len(screen_stack) - 1)
                  /\ Top' \in {"TimezoneScreen", "WiFiScreen"}
      ]_vars

C3_Witness ==
    /\ Top = "ApplyScreen"
    /\ screen_stack[Len(screen_stack) - 1] = "SummaryScreen"
    /\ attempted # <<>>

\* A step that ends the session, and a step that goes back one screen.
CancelStep == Next /\ proc' = "exited" /\ exit_code' = 0

BackStep ==
    /\ Next
    /\ proc' = "running"
    /\ screen_stack' = SubSeq(screen_stack, 1, Len(screen_stack) - 1)
    /\ state' = state

\* C4 (as claimed): a cancel or quit is accepted on every screen, ApplyScreen
\* included, and ends the session; a session ended before ApplyScreen was entered
\* has run no stage.
C4_CancelOnEveryScreen ==
    /\ proc = "running" => ENABLED CancelStep
    /\ (proc = "exited" /\ ~InStack("ApplyScreen")) => (apply_pc = "none" /\ attempted = <<>>)

\* C4 (amended): a cancel or quit is accepted on every screen from WelcomeScreen to
\* SummaryScreen and ends the session; on ApplyScreen the session can be ended only
\* once apply_configuration has stopped (the Exit button is disabled until then); a
\* session ended before ApplyScreen was entered has run no stage.
C4_CancelBeforeApply ==
    /\ (proc = "running" /\ Top # "ApplyScreen") => ENABLED CancelStep
    /\ (proc = "running" /\ Top = "ApplyScreen") => (ENABLED CancelStep <=> apply_pc = "done")
    /\ (proc = "exited" /\ ~InStack("ApplyScreen")) => (apply_pc = "none" /\ attempted = <<>>)

C4_Witness ==
    /\ proc = "exited"
    /\ Top = "SummaryScreen"
    /\ state.configure_wifi
    /\ attempted = <<>>

\* A step that leaves a screen backwards pops exactly the top of the screen stack
\* and changes nothing else.
PopsTheTop ==
    (runs' = runs /\ Len(screen_stack') < Len(screen_stack))
        => /\ screen_stack' = SubSeq(screen_stack, 1, Len(screen_stack) - 1)
           /\ UNCHANGED <<proc, exit_code, state, wifi_iface, applyvars, hostvars>>

\* C5 (as claimed): back is accepted on every screen but WelcomeScreen, and every
\* step that leaves a screen backwards pops exactly the top of the screen stack.
C5_BackOnEveryScreen ==
    /\ []((proc = "running" /\ Top # "WelcomeScreen") => ENABLED BackStep)
    /\ [][PopsTheTop]_vars

\* C5 (amended): back is accepted on every screen but WelcomeScreen and ApplyScreen,
\* which have none, and every step that leaves a screen backwards pops exactly the
\* top of the screen stack and changes nothing else.
C5_BackBeforeApply ==
    /\ []((proc = "running" /\ Top \notin {"WelcomeScreen", "ApplyScreen"}) => ENABLED BackStep)
    /\ []((proc = "running" /\ Top \in {"WelcomeScreen", "ApplyScreen"}) => ~ENABLED BackStep)
    /\ [][PopsTheTop]_vars

C5_Witness ==
    /\ proc = "running"
    /\ Top = "SSHMethodScreen"
    /\ state.configure_wifi
    /\ state.ssh_file_path # <<>>

\* C6: WiFiScreen is entered only from TimezoneScreen and only when the probe made
\* on leaving TimezoneScreen found an interface; SummaryScreen is entered straight
\* from TimezoneScreen exactly when that probe found none.
C6_WifiOnlyWhenProbed ==
    \A i \in 1..Len(screen_stack) :
        /\ screen_stack[i] = "WiFiScreen"
              => (i > 1 /\ screen_stack[i - 1] = "TimezoneScreen" /\ wifi_iface # "None")
        /\ (screen_stack[i] = "SummaryScreen" /\ i > 1 /\ screen_stack[i - 1] = "TimezoneScreen")
              => wifi_iface = "None"
        /\ (screen_stack[i] = "TimezoneScreen" /\ i < Len(screen_stack))
              => screen_stack[i + 1] = (IF wifi_iface = "None" THEN "SummaryScreen"
                                        ELSE "WiFiScreen")

C6_Witness ==
    /\ Top = "SummaryScreen"
    /\ screen_stack[Len(screen_stack) - 1] = "TimezoneScreen"
    /\ wifi_iface = "None"

\* A step in which a stage's try block ran.
StageRan(stage) == apply_pc = stage /\ apply_pc' # stage

\* C7 (as claimed): a step that changes or removes a target file that existed
\* leaves a backup, stamped with the time of the step, holding the file's content
\* from before the step; and no step overwrites or deletes a backup.
C7_BackupsKept ==
    [][/\ \A path \in Paths :
             (fs.files[path].exists /\ fs'.files[path] # fs.files[path])
                 => \E b \in fs'.backups :
                       /\ b.path = path
                       /\ b.ts = timestamp(now')
                       /\ b.content = fs.files[path].content
       /\ \A b \in fs.backups : b \in fs'.backups
      ]_vars

\* Two applications of the hostname stage in succession, with different
\* hostnames, the first over a hostname.nix that existed.
TwoHostnames ==
    /\ Len(written) = 2
    /\ written[1].hostname # written[2].hostname
    /\ written[1].prior.exists

\* C8 (as claimed): once the hostname stage has written two different hostnames in
\* succession over a hostname.nix that existed before the first, there is exactly
\* one backup of hostname.nix, it holds the content from before the first, and
\* hostname.nix holds the second hostname's fragment.
C8_OneBackup ==
    TwoHostnames
        => /\ Cardinality(BackupsOf(fs, HOSTNAME_NIX)) = 1
           /\ \A b \in BackupsOf(fs, HOSTNAME_NIX) : b.content = written[1].prior.content
           /\ fs.files[HOSTNAME_NIX].content = hostname_nix([hostname |-> written[2].hostname])

\* C8 (amended): once the hostname stage has written two different hostnames in
\* succession over a hostname.nix that existed before the first, each application
\* has made a backup of what it overwrote: the backup stamped with the second
\* application's time holds the first hostname's fragment, and, when the two
\* times differ, a second backup stamped with the first application's time holds
\* the content from before the first application (two backups); when the two
\* times are the same second there is one backup only. hostname.nix holds the
\* second hostname's fragment only.
C8_TwoBackups ==
    TwoHostnames
        => /\ BackupsOf(fs, HOSTNAME_NIX)
                 = {[path |-> HOSTNAME_NIX, ts |-> written[2].ts,
                     content |-> hostname_nix([hostname |-> written[1].hostname]),
                     mode |-> written[2].prior.mode]}
                   \cup (IF written[1].ts # written[2].ts
                         THEN {[path |-> HOSTNAME_NIX, ts |-> written[1].ts,
                                content |-> written[1].prior.content,
                                mode |-> written[1].prior.mode]}
                         ELSE {})
           /\ written[1].ts # written[2].ts
                 => Cardinality(BackupsOf(fs, HOSTNAME_NIX)) = 2
           /\ fs.files[HOSTNAME_NIX].content = hostname_nix([hostname |-> written[2].hostname])

C8_Witness ==
    /\ TwoHostnames
    /\ written[1].ts # written[2].ts
    /\ Cardinality(BackupsOf(fs, HOSTNAME_NIX)) = 2

\* C10: when the wifi stage runs with configure_wifi false and no wifi.nix exists,
\* it changes nothing and passes; when wifi.nix exists, either the stage passes,
\* wifi.nix is gone and a backup stamped with the time of the step holds its
\* content, or a filesystem call raised, the stage is reported failed and wifi.nix
\* is still there, unchanged.
C10_WifiAbsenceEnforced ==
    [][(StageRan("wifi") /\ ~state.configure_wifi)
          => IF ~fs.files[WIFI_NIX].exists
             THEN /\ fs' = fs
                  /\ apply_pc' = "rebuild"
                  /\ error_log' = <<>>
             ELSE \/ /\ apply_pc' = "rebuild"
                     /\ error_log' = <<>>
                     /\ ~fs'.files[WIFI_NIX].exists
                     /\ \E b \in fs'.backups :
                           /\ b.path = WIFI_NIX
                           /\ b.ts = timestamp(now')
                           /\ b.content = fs.files[WIFI_NIX].content
                     /\ \A path \in Paths \ {WIFI_NIX} : fs'.files[path] = fs.files[path]
                  \/ /\ apply_pc' = "done"
                     /\ error_log' \in {<<"wifi", "backup">>, <<"wifi", "unlink">>}
                     /\ fs'.files = fs.files
      ]_vars

C10_Witness ==
    /\ apply_pc = "rebuild"
    /\ ~state.configure_wifi
    /\ ~fs.files[WIFI_NIX].exists
    /\ \E b \in fs.backups : b.path = WIFI_NIX /\ b.content = Previous(WIFI_NIX)

\* The user the files of a file stage are given to, "root" standing for none.
OwnerOf(stage) ==
    CASE stage = "ssh" -> "pi"
      [] stage = "runner" -> "github-runner"
      [] OTHER -> "root"

\* C11 (as claimed): when the ssh stage or the runner stage runs on a host that
\* lacks the user its files are given to, the ownership assignment does not make
\* the stage fail: the stage does not end on a raising chown.
C11_MissingOwnerTolerated ==
    [][\A stage \in {"ssh", "runner"} :
          (StageRan(stage) /\ OwnerOf(stage) \notin fs.users)
              => ~(apply_pc' = "done" /\ error_log' = <<stage, "chown">>)
      ]_vars

\* C12 (as claimed): when the process has exited after its pipeline ended, the
\* exit code is 0 if every stage succeeded and 1 if a stage failed; when it was
\* started without root privilege the exit code is 1, no screen was entered and
\* no stage ran.
C12_ExitCodeReflectsOutcome ==
    /\ (proc = "exited" /\ apply_pc = "done")
          => /\ error_log = <<>> => exit_code = 0
             /\ error_log # <<>> => exit_code = 1
    /\ (proc = "exited" /\ screen_stack = <<>>)
          => (exit_code = 1 /\ state = SetupState /\ attempted = <<>>)

\* The input the last continue handler read, when it was that of screen.
EnteredOn(screen) == entered.screen = screen

NotSpace(item) == ~IsSpace(item)

\* The whitespace-separated tokens of a text.
Tokens(text) == SelectSeq(text, NotSpace)

Base64Alphabet == Upper \cup Lower \cup Digit \cup {"+", "/"}

\* One or more characters of the base64 alphabet followed by 0 to 2 '='.
Base64Shaped(cs) ==
    \E pad \in 0..2 :
       /\ Len(cs) > pad
       /\ \A i \in 1..(Len(cs) - pad) : cs[i] \in Base64Alphabet
       /\ \A i \in (Len(cs) - pad + 1)..Len(cs) : cs[i] = "="

\* At least two tokens, a recognized key type and base64 data.
KeyShaped(text) ==
    /\ Len(Tokens(text)) >= 2
    /\ Tokens(text)[1] \in valid_types
    /\ Base64Shaped(Chars(Tokens(text)[2]))

\* C13: SSH-key validation, as SSHPasteScreen applies it to the pasted text,
\* accepts the text (GitHubRunnerScreen is pushed) exactly when the text has at
\* least two whitespace-separated tokens, the first one of the eight recognized
\* key types and the second made of base64 characters followed by 0 to 2 '=';
\* it rejects every other text and stays on SSHPasteScreen.
C13_KeyValidation ==
    /\ Cardinality(valid_types) = 8
    /\ EnteredOn("SSHPasteScreen")
          => /\ Top \in {"SSHPasteScreen", "GitHubRunnerScreen"}
             /\ Top = "GitHubRunnerScreen" <=> KeyShaped(entered.value[1])

C13_Witness ==
    /\ EnteredOn("SSHPasteScreen")
    /\ Top = "GitHubRunnerScreen"
    /\ entered.value[1] = KeyB \o <<"\n">>
    /\ state.validated_ssh_key = KeyB

HostAlphabet == Upper \cup Lower \cup Digit \cup {"-"}

MaxHostname == 63

\* [A-Za-z0-9-]{1,63}
HostnameShaped(cs) ==
    /\ Len(cs) \in 1..MaxHostname
    /\ \A i \in 1..Len(cs) : cs[i] \in HostAlphabet

\* C14 (as claimed): HostNameScreen's continue accepts the hostname entered (it is
\* staged and TimezoneScreen is pushed) exactly when the hostname matches
\* [A-Za-z0-9-]{1,63}, and rejects every other.
C14_HostnameAsEntered ==
    EnteredOn("HostNameScreen")
        => /\ Top \in {"HostNameScreen", "TimezoneScreen"}
           /\ Top = "TimezoneScreen" <=> HostnameShaped(TextChars(entered.value[1]))
           /\ Top = "TimezoneScreen" => state.hostname = entered.value[1]

\* C14 (amended): HostNameScreen's continue strips leading and trailing whitespace
\* from the value entered and accepts it exactly when the stripped value matches
\* [A-Za-z0-9-]{1,63}; it stages the stripped value. A value that matches only
\* once stripped is accepted; every value whose stripped form is empty, has a
\* character outside the class or is longer than 63 characters is rejected.
C14_HostnameStripped ==
    EnteredOn("HostNameScreen")
        => /\ Top \in {"HostNameScreen", "TimezoneScreen"}
           /\ Top = "TimezoneScreen" <=> HostnameShaped(TextChars(strip(entered.value[1])))
           /\ Top = "TimezoneScreen" => state.hostname = strip(entered.value[1])

C14_Witness ==
    /\ EnteredOn("HostNameScreen")
    /\ Top = "TimezoneScreen"
    /\ entered.value[1] = <<"pi-lab", " ">>
    /\ state.hostname = <<"pi-lab">>

MinPassword == 8

\* C15 (as claimed): at WiFiScreen's continue with configure checked, a password
\* of fewer than 8 characters is rejected whatever the SSID, and a password of 8
\* or more characters, whatever characters they are, with a non-empty SSID is
\* accepted and staged.
C15_PasswordByLength ==
    (EnteredOn("WiFiScreen") /\ entered.value[1])
        => LET ssid     == entered.value[2]
               password == entered.value[3]
           IN /\ Top \in {"WiFiScreen", "SummaryScreen"}
              /\ len(password) < MinPassword => Top = "WiFiScreen"
              /\ (len(password) >= MinPassword /\ len(ssid) > 0)
                    => /\ Top = "SummaryScreen"
                       /\ state.configure_wifi
                       /\ state.wifi_password = password

\* The lines of a response that pass validation once trimmed, trimmed, in order.
ApprovedLines(body) ==
    LET lines == split_nl(body, <<>>)
    IN SelectSeq([i \in 1..Len(lines) |-> strip(lines[i])], KeyShaped)

\* C16: a continue on SSHGithubScreen whose fetch succeeds stages exactly the
\* lines of the response that pass SSH-key validation once trimmed, in response
\* order, and pushes GitHubRunnerScreen; when no line passes, or the fetch fails,
\* it stages nothing and stays on SSHGithubScreen.
C16_GithubValidSubset ==
    [][(On("SSHGithubScreen") /\ entered'.screen = "SSHGithubScreen")
          => LET username == strip(entered'.value[1])
                 net      == entered'.value[2]
                 keys     == ApprovedLines(net.body)
             IN IF fetch_github_keys(username, net).ok /\ keys # <<>>
                THEN /\ state' = [state EXCEPT !.ssh_github_username = username,
                                               !.validated_ssh_key = join_nl(keys)]
                     /\ screen_stack' = Append(screen_stack, "GitHubRunnerScreen")
                ELSE /\ state' = state
                     /\ screen_stack' = screen_stack
      ]_vars

C16_Witness ==
    /\ EnteredOn("SSHGithubScreen")
    /\ Top = "GitHubRunnerScreen"
    /\ Len(split_nl(strip(entered.value[2].body), <<>>)) = 4
    /\ state.validated_ssh_key = KeyA \o <<"\n">> \o KeyC

\* C17 (as claimed): SSHPasteScreen rejects a pasted text that holds several keys,
\* one valid key per line: it stays on SSHPasteScreen and stages no key.
C17_MultiKeyPasteRejected ==
    (EnteredOn("SSHPasteScreen") /\ Len(ApprovedLines(entered.value[1])) > 1)
        => /\ Top = "SSHPasteScreen"
           /\ state.ssh_public_key # strip(entered.value[1])

\* C18: when apply_configuration has stopped, the display says the configuration
\* was applied successfully exactly when all six stages ran and none failed (the
\* error display is then empty); otherwise the error display is not empty and
\* names the stage that failed, which is the last one that ran; and an error,
\* once displayed, is never removed from the display.
C18_FinalDisplay ==
    /\ [](apply_pc = "done"
            => /\ status_log = "success" <=> (attempted = Stages /\ error_log = <<>>)
               /\ status_log # "success"
                     => /\ error_log # <<>>
                        /\ error_log[1] = attempted[Len(attempted)])
    /\ [][error_log # <<>> => error_log' = error_log]_vars

C18_Witness ==
    /\ apply_pc = "done"
    /\ attempted = <<"ssh", "runner", "hostname">>
    /\ error_log = <<"hostname", "write">>
    /\ status_log = "3/6"

\* C19: in every reachable state, whatever continue, skip and back presses were
\* made at WiFiScreen, configure_wifi true implies that the staged SSID is not
\* empty and the staged password has at least 8 characters.
C19_WifiStagedValid ==
    state.configure_wifi
        => /\ len(state.wifi_ssid) > 0
           /\ len(state.wifi_password) >= MinPassword

C19_Witness ==
    /\ Top = "WiFiScreen"
    /\ state.configure_wifi
    /\ EnteredOn("WiFiScreen")
    /\ entered.value[3] = <<"p*7">>

\* Every line of a text passes SSH-key validation.
AllLinesApproved(text) ==
    LET lines == split_nl(text, <<>>)
    IN \A i \in 1..Len(lines) : KeyShaped(lines[i])

\* C20 (as claimed): in every reachable state each line of the staged key material
\* passes SSH-key validation, and so does each line of the authorized_keys file
\* the ssh stage has written.
C20_StagedKeysApproved ==
    /\ state.validated_ssh_key # <<>> => AllLinesApproved(state.validated_ssh_key)
    /\ ("ssh" \in {attempted[i] : i \in 1..Len(attempted)} /\ error_log = <<>>)
          => /\ fs.files[AUTH_KEYS_FILE].content = state.validated_ssh_key \o <<"\n">>
             /\ AllLinesApproved(state.validated_ssh_key)

\* A text that is not empty once trimmed.
NotBlank(text) == Tokens(text) # <<>>

\* (ghp_|ghs_) followed by 36 or more letters and digits
TokenShaped(cs) ==
    /\ Len(cs) >= 40
    /\ <<cs[1], cs[2], cs[3], cs[4]>> \in {<<"g", "h", "p", "_">>, <<"g", "h", "s", "_">>}
    /\ \A i \in 5..Len(cs) : cs[i] \in Upper \cup Lower \cup Digit

\* C21: GitHubRunnerScreen's continue advances to HostNameScreen exactly when the
\* trimmed token and the trimmed URL are both not empty, and stages both; a token
\* that does not match the token-prefix pattern gets a warning and is staged all
\* the same. So whenever HostNameScreen is on the stack the staged token and URL
\* are not empty.
C21_RunnerNonEmpty ==
    /\ EnteredOn("GitHubRunnerScreen")
          => /\ Top \in {"GitHubRunnerScreen", "HostNameScreen"}
             /\ Top = "HostNameScreen"
                   <=> (NotBlank(entered.value[1]) /\ NotBlank(entered.value[2]))
             /\ Top = "HostNameScreen"
                   => /\ state.runner_token = strip(entered.value[1])
                      /\ state.runner_url = strip(entered.value[2])
                      /\ entered.msg = "warning"
                            <=> ~TokenShaped(TextChars(state.runner_token))
    /\ InStack("HostNameScreen")
          => (len(state.runner_token) > 0 /\ len(state.runner_url) > 0)

C21_Witness ==
    /\ EnteredOn("GitHubRunnerScreen")
    /\ Top = "HostNameScreen"
    /\ entered.msg = "warning"
    /\ state.runner_token = <<"ghp_token">>

\* A skip: a press that reads no input, pushes one screen and leaves the record as it was.
SkipStep ==
    /\ Next
    /\ entered'.screen = "None"
    /\ Len(screen_stack') = Len(screen_stack) + 1
    /\ state' = state

\* C22: a skip can be pressed at HostNameScreen and at TimezoneScreen in every
\* state; a press there that reads no input and advances leaves every field of
\* the record, hostname and timezone included, as it was; and the hostname
\* (timezone) of the record changes only when HostNameScreen's (TimezoneScreen's)
\* continue accepts a value, so it is the default until then.
C22_SkipKeepsRecord ==
    /\ []((proc = "running" /\ Top \in {"HostNameScreen", "TimezoneScreen"}) => ENABLED SkipStep)
    /\ [][/\ (On("HostNameScreen") /\ entered'.screen = "None"
                 /\ Len(screen_stack') > Len(screen_stack))
                => (Top' = "TimezoneScreen" /\ state' = state)
          /\ (On("TimezoneScreen") /\ entered'.screen = "None"
                 /\ Len(screen_stack') > Len(screen_stack))
                => (Top' \in {"WiFiScreen", "SummaryScreen"} /\ state' = state)
          /\ state'.hostname # state.hostname
                => (On("HostNameScreen") /\ entered'.screen = "HostNameScreen")
          /\ state'.timezone # state.timezone
                => (On("TimezoneScreen") /\ entered'.screen = "TimezoneScreen")
         ]_vars

C22_Witness ==
    /\ Top = "SummaryScreen"
    /\ entered.screen = "None"
    /\ state.hostname = DEFAULT_HOSTNAME
    /\ state.timezone = <<"Europe/Zurich">>
    /\ ~InStack("WiFiScreen")

\* The input i a continue handler read fails validation, or its key source fails.
FailsValidation(i) ==
    CASE i.screen = "SSHGithubScreen" ->
            \/ ~NotBlank(i.value[1])
            \/ \E k \in 1..Len(TextChars(strip(i.value[1]))) :
                  TextChars(strip(i.value[1]))[k] \notin HostAlphabet
            \/ i.value[2].kind # "body"
            \/ ApprovedLines(i.value[2].body) = <<>>
      [] i.screen = "SSHPasteScreen" -> ~KeyShaped(i.value[1])
      [] i.screen = "SSHFileScreen" ->
            \/ ~NotBlank(i.value[1])
            \/ i.value[2].kind # "content"
            \/ ~KeyShaped(i.value[2].content)
      [] i.screen = "GitHubRunnerScreen" -> ~NotBlank(i.value[1]) \/ ~NotBlank(i.value[2])
      [] i.screen = "HostNameScreen" -> ~HostnameShaped(TextChars(strip(i.value[1])))
      [] i.screen = "WiFiScreen" ->
            i.value[1] /\ (~NotBlank(i.value[2]) \/ len(strip(i.value[3])) < MinPassword)
      [] OTHER -> FALSE

\* C23: a continue whose input fails validation, or whose key source fails, shows
\* an error and leaves the screen stack, every field of the record, the pipeline
\* and the filesystem unchanged; the session goes on.
C23_RejectChangesNothing ==
    [][(proc = "running" /\ entered'.screen = Top /\ FailsValidation(entered'))
          => /\ entered'.msg = "error"
             /\ screen_stack' = screen_stack
             /\ state' = state
             /\ proc' = "running"
             /\ apply_pc' = "none"
             /\ attempted' = <<>>
             /\ fs' = fs
      ]_vars

C23_Witness ==
    /\ EnteredOn("WiFiScreen")
    /\ entered.msg = "error"
    /\ Top = "WiFiScreen"
    /\ state.configure_wifi
    /\ state.wifi_password = <<"p*7", " ", "!!!">>

\* The last n characters of a stream, the whole of it when it is shorter.
TailOf(stream, n) ==
    IF Len(stream) <= n THEN stream ELSE SubSeq(stream, Len(stream) - n + 1, Len(stream))

\* C24 (as claimed): when nixos-rebuild has exited with a non-zero code and written
\* to its standard error, the rebuild stage has failed and the detail displayed
\* is the tail of that stream: its last 1000 characters, the whole of it when
\* it is shorter.
C24_ErrorTail ==
    (apply_pc = "done" /\ Len(error_log) = 3 /\ stderr # <<>>)
        => /\ error_log[1] = "rebuild"
           /\ error_log[3] = TailOf(stderr, 1000)

\* C25: whenever apply_configuration is about to run nixos-rebuild, hostname.nix
\* holds the fragment of the record's hostname, timezone.nix that of the record's
\* timezone, and wifi.nix holds the fragment of the record's SSID and password
\* when configure_wifi is true and does not exist when it is false.
C25_ArtifactsBeforeRebuild ==
    apply_pc = "rebuild"
        => /\ fs.files[HOSTNAME_NIX].exists
           /\ fs.files[HOSTNAME_NIX].content = hostname_nix(state)
           /\ fs.files[TIMEZONE_NIX].exists
           /\ fs.files[TIMEZONE_NIX].content = timezone_nix(state)
           /\ IF state.configure_wifi
              THEN /\ fs.files[WIFI_NIX].exists
                   /\ fs.files[WIFI_NIX].content = wifi_nix(state)
              ELSE ~fs.files[WIFI_NIX].exists

C25_Witness ==
    /\ apply_pc = "rebuild"
    /\ state.configure_wifi
    /\ state.hostname = <<"pi-lab">>
    /\ state.timezone = <<"Europe/Zurich">>
    /\ fs.files[WIFI_NIX].content = wifi_nix(state)
    /\ \E b \in fs.backups : b.path = TIMEZONE_NIX

\* What the pipeline writes to a secret-bearing file.
SecretOf(path) ==
    CASE path = AUTH_KEYS_FILE -> state.validated_ssh_key \o <<"\n">>
      [] path = RUNNER_TOKEN_FILE -> state.runner_token \o <<"\n">>
      [] path = RUNNER_URL_FILE -> state.runner_url \o <<"\n">>

\* C26 (as claimed): in every state, a failed stage's included, a secret-bearing
\* file that holds the content the pipeline wrote to it has owner-only mode.
C26_SecretsOwnerOnly ==
    \A path \in {AUTH_KEYS_FILE, RUNNER_TOKEN_FILE, RUNNER_URL_FILE} :
       (apply_pc # "none" /\ fs.files[path].exists /\ fs.files[path].content = SecretOf(path))
           => fs.files[path].mode = "0600"

\* C27: once started, apply_configuration eventually stops with the Exit button
\* enabled, whichever stage fails or succeeds; the Exit button is not enabled
\* before it has stopped; and it is started at most once in a session: only
\* from the state in which it never ran, and once stopped it stays stopped.
C27_PipelineTerminates ==
    /\ (apply_pc \notin {"none", "done"}) ~> (apply_pc = "done" /\ ~exit_disabled)
    /\ [](~exit_disabled => apply_pc = "done")
    /\ [][/\ (apply_pc' = "ssh" /\ apply_pc # "ssh") => apply_pc = "none"
          /\ apply_pc = "done" => apply_pc' = "done"
          /\ apply_pc # "none" => apply_pc' # "none"
         ]_vars

C27_Witness ==
    /\ apply_pc = "done"
    /\ ~exit_disabled
    /\ Len(error_log) = 3
    /\ attempted = Stages

\* The forward transitions of the canonical order of the wizard.
ForwardPath ==
    {<<"WelcomeScreen", "SSHMethodScreen">>,
     <<"SSHMethodScreen", "SSHGithubScreen">>,
     <<"SSHMethodScreen", "SSHPasteScreen">>,
     <<"SSHMethodScreen", "SSHFileScreen">>,
     <<"SSHGithubScreen", "GitHubRunnerScreen">>,
     <<"SSHPasteScreen", "GitHubRunnerScreen">>,
     <<"SSHFileScreen", "GitHubRunnerScreen">>,
     <<"GitHubRunnerScreen", "HostNameScreen">>,
     <<"HostNameScreen", "TimezoneScreen">>,
     <<"TimezoneScreen", "WiFiScreen">>,
     <<"TimezoneScreen", "SummaryScreen">>,
     <<"WiFiScreen", "SummaryScreen">>,
     <<"SummaryScreen", "ApplyScreen">>}

\* C28: in every state the screen stack is a forward path of the wizard:
\* WelcomeScreen at the bottom, each screen pushed from the one below it by a
\* transition of the canonical order, and no screen on the stack twice, so at
\* most one of the three SSH source screens.
C28_StackIsForwardPath ==
    /\ proc = "running" => screen_stack # <<>>
    /\ screen_stack # <<>> => screen_stack[1] = "WelcomeScreen"
    /\ \A i \in 1..(Len(screen_stack) - 1) :
          <<screen_stack[i], screen_stack[i + 1]>> \in ForwardPath
    /\ \A i, j \in 1..Len(screen_stack) : screen_stack[i] = screen_stack[j] => i = j
    /\ Cardinality({i \in 1..Len(screen_stack) :
                       screen_stack[i] \in {"SSHGithubScreen", "SSHPasteScreen",
                                            "SSHFileScreen"}}) <= 1

C28_Witness ==
    /\ Top = "ApplyScreen"
    /\ InStack("WiFiScreen")
    /\ InStack("SSHFileScreen")
    /\ Len(screen_stack) = 9

\* The source screen that SSHMethodScreen pushes for a method.
SourceOf(method) ==
    CASE method = "github" -> "SSHGithubScreen"
      [] method = "paste" -> "SSHPasteScreen"
      [] method = "file" -> "SSHFileScreen"
      [] OTHER -> "None"

\* C29: while GitHubRunnerScreen or a later screen is on the stack, ssh_method
\* names the source that last staged validated_ssh_key: GitHubRunnerScreen is
\* entered only by the accepting continue handler of the source screen of the
\* recorded method, the source screen below it is that method's, a pasted key is
\* the staged key when the method is paste, and neither ssh_method nor
\* validated_ssh_key changes while GitHubRunnerScreen is on the stack; in any step
\* validated_ssh_key is written only by the source screen of the recorded method.
C29_MethodNamesKeySource ==
    /\ [](InStack("GitHubRunnerScreen")
            => /\ Len(screen_stack) >= 4
               /\ screen_stack[3] = SourceOf(state.ssh_method)
               /\ screen_stack[4] = "GitHubRunnerScreen"
               /\ state.validated_ssh_key # <<>>
               /\ state.ssh_method = "paste"
                     => state.validated_ssh_key = state.ssh_public_key)
    /\ [][/\ (InStack("GitHubRunnerScreen")' /\ ~InStack("GitHubRunnerScreen"))
                => /\ Top = SourceOf(state.ssh_method)
                   /\ entered' = [entered' EXCEPT !.screen = Top, !.msg = ""]
                   /\ state'.ssh_method = state.ssh_method
          /\ (InStack("GitHubRunnerScreen") /\ runs' = runs)
                => /\ state'.ssh_method = state.ssh_method
                   /\ state'.validated_ssh_key = state.validated_ssh_key
          /\ (state'.validated_ssh_key # state.validated_ssh_key /\ runs' = runs)
                => /\ Top = SourceOf(state.ssh_method)
                   /\ state'.ssh_method = state.ssh_method
                   /\ InStack("GitHubRunnerScreen")'
         ]_vars

C29_Witness ==
    /\ Top = "SummaryScreen"
    /\ state.ssh_method = "paste"
    /\ state.ssh_github_username # <<>>
    /\ state.ssh_file_path # <<>>
    /\ state.validated_ssh_key = state.ssh_public_key

\* C30 (as claimed): whenever SummaryScreen is on the stack directly above
\* TimezoneScreen, configure_wifi is false, and a pipeline started from there
\* leaves no wifi.nix written by its wifi stage.
C30_NoWifiWithoutWifiScreen ==
    (/\ InStack("SummaryScreen")
     /\ ~InStack("WiFiScreen"))
        => /\ ~state.configure_wifi
           /\ (apply_pc \in {"rebuild", "done"} /\ error_log = <<>>)
                 => ~fs.files[WIFI_NIX].exists

====
